---- MODULE Spec2Model ----
(***************************************************************************)
(* Model of qbdpy/build_all.py: the header patching passes (text level)    *)
(* and the build orchestration (file-system level).                        *)
(*                                                                         *)
(* Text is a sequence of one-character strings; a file's content is one    *)
(* such sequence, line terminators included.                               *)
(***************************************************************************)
EXTENDS Integers, Sequences, FiniteSets, TLC

(***************************************************************************)
(* Characters, integers and the str methods the passes use                 *)
(***************************************************************************)

NL == "\n"

\* the characters of the model's alphabet that the regex class \s matches
WS == {" ", "\t", NL}

DigitChars == <<"0", "1", "2", "3", "4", "5", "6", "7", "8", "9">>

\* the regex class \d
Digit == {DigitChars[i] : i \in 1..Len(DigitChars)}

DigitVal(c) == (CHOOSE i \in 1..Len(DigitChars) : DigitChars[i] = c) - 1

\* int(text) of a run of decimal digits
RECURSIVE ParseInt(_)
ParseInt(ds) ==
    IF ds = <<>> THEN 0
    ELSE 10 * ParseInt(SubSeq(ds, 1, Len(ds) - 1)) + DigitVal(ds[Len(ds)])

\* '{}'.format(n) of an integer n >= 0
RECURSIVE FormatInt(_)
FormatInt(n) ==
    IF n < 10 THEN <<DigitChars[n + 1]>>
    ELSE FormatInt(n \div 10) \o <<DigitChars[(n % 10) + 1]>>

\* a << b on Python's unbounded integers
RECURSIVE ShiftLeft(_, _)
ShiftLeft(a, b) == IF b = 0 THEN a ELSE ShiftLeft(2 * a, b - 1)

\* p occurs in s starting at index i
IsAt(p, s, i) ==
    /\ i >= 1
    /\ i + Len(p) - 1 <= Len(s)
    /\ \A k \in 1..Len(p) : s[i + k - 1] = p[k]

\* s.startswith(p)
StartsWith(s, p) == IsAt(p, s, 1)

\* p in s
Contains(s, p) == \E i \in 1..(Len(s) + 1) : IsAt(p, s, i)

\* the first index >= i of s whose character is outside C, Len(s)+1 if none:
\* where a greedy C* started at i stops
SkipSet(s, i, C) ==
    CHOOSE j \in i..(Len(s) + 1) :
        /\ \A k \in i..(j - 1) : s[k] \in C
        /\ j = Len(s) + 1 \/ s[j] \notin C

\* where a greedy \S* started at i stops
SkipNonWS(s, i) ==
    CHOOSE j \in i..(Len(s) + 1) :
        /\ \A k \in i..(j - 1) : s[k] \notin WS
        /\ j = Len(s) + 1 \/ s[j] \in WS

\* str.splitlines()
RECURSIVE SplitLines(_)
SplitLines(s) ==
    IF s = <<>> THEN <<>>
    ELSE IF \E k \in 1..Len(s) : s[k] = NL
         THEN LET k == CHOOSE k \in 1..Len(s) :
                           s[k] = NL /\ \A j \in 1..(k - 1) : s[j] # NL
              IN  <<SubSeq(s, 1, k - 1)>> \o SplitLines(SubSeq(s, k + 1, Len(s)))
         ELSE <<s>>

\* '\n'.join(lines)
RECURSIVE JoinLines(_)
JoinLines(lines) ==
    IF lines = <<>> THEN <<>>
    ELSE IF Len(lines) = 1 THEN lines[1]
    ELSE lines[1] \o <<NL>> \o JoinLines(Tail(lines))

(***************************************************************************)
(* String literals of the source                                           *)
(***************************************************************************)

STR_include == <<"#","i","n","c","l","u","d","e">>
STR_define == <<"#","d","e","f","i","n","e">>
STR_PATCH == <<"/","/","P","A","T","C","H","/","/">>
STR_const_int == <<"c","o","n","s","t"," ","i","n","t"," ">>
STR_QBDI == <<"Q","B","D","I">>
STR_unused == <<"_","_","p","Q","D","B","I","_","u","n","u","s","e","d","_","_">>
STR_compile_check == <<"_","_","c","o","m","p","i","l","e","_","c","h","e","c","k">>
STR_extern_on == <<"e","x","t","e","r","n"," ","i","n","t"," ","q","b","d","i","p","r","e","l","o","a","d","_","o","n","_">>
STR_attribute_shim == <<"#","d","e","f","i","n","e"," ","_","_","a","t","t","r","i","b","u","t","e","_","_","(","x",")","\n">>

VARADIC_FUNCTIONS ==
    { <<"q","b","d","i","_","c","a","l","l">>,
      <<"q","b","d","i","_","s","i","m","u","l","a","t","e","C","a","l","l">> }

(***************************************************************************)
(* UniqueNameGenerator and BitfieldAnonymizer                              *)
(***************************************************************************)

\* the value _name_counter is reset to
CounterStart == -1

\* mk_unique_name with the slip of not storing the bumped counter
mk_unique_name_keeps_counter(cnt) ==
    [ cnt |-> cnt,
      name |-> STR_unused \o FormatInt(cnt + 1) \o <<"_", "_">> ]

\* mk_unique_name: bumps the counter, returns the name made from it
mk_unique_name(cnt) ==
    [ cnt |-> cnt + 1,
      name |-> STR_unused \o FormatInt(cnt + 1) \o <<"_", "_">> ]

NoBitfield == [ok |-> FALSE, bitsize |-> <<>>, line_end |-> ""]

\* the tail  :\s*(\d+)\s*([;,])  of _bitfield_matcher, tried at index p
BitfieldTail(s, p) ==
    IF ~(p <= Len(s) /\ s[p] = ":") THEN NoBitfield
    ELSE LET d1 == SkipSet(s, p + 1, WS)
             d2 == SkipSet(s, d1, Digit)
             e  == SkipSet(s, d2, WS)
         IN  IF d2 > d1 /\ e <= Len(s) /\ s[e] \in {";", ","}
             THEN [ok |-> TRUE, bitsize |-> SubSeq(s, d1, d2 - 1), line_end |-> s[e]]
             ELSE NoBitfield

\* _bitfield_matcher.match(line):  ^\s+(?:/\*.*?\*/\s*)?:\s*(\d+)\s*([;,])
\* The lazy .*? stops at the first */ after which the tail matches.
bitfield_matcher(line) ==
    LET i1 == SkipSet(line, 1, WS)
        ends == { k \in (i1 + 2)..(Len(line) - 1) :
                    /\ IsAt(<<"/", "*">>, line, i1)
                    /\ IsAt(<<"*", "/">>, line, k)
                    /\ BitfieldTail(line, SkipSet(line, k + 2, WS)).ok }
    IN  IF i1 = 1 THEN NoBitfield
        ELSE IF ends # {}
             THEN LET k == CHOOSE k \in ends : \A j \in ends : k <= j
                  IN  BitfieldTail(line, SkipSet(line, k + 2, WS))
             ELSE BitfieldTail(line, i1)

\* patch_bitfield(line), with the global counter passed in and out
patch_bitfield(line, cnt) ==
    LET m == bitfield_matcher(line)
        u == mk_unique_name(cnt)
    IN  IF m.ok
        THEN [ line |-> u.name \o <<":", " ">> \o FormatInt(ParseInt(m.bitsize))
                          \o <<m.line_end>>,
               cnt |-> u.cnt ]
        ELSE [ line |-> line, cnt |-> cnt ]

(***************************************************************************)
(* IncludePatcher                                                          *)
(***************************************************************************)

\* index of the last character of s outside \s, 0 if none
LastNonWS(s) ==
    IF \A k \in 1..Len(s) : s[k] \in WS THEN 0
    ELSE CHOOSE k \in 1..Len(s) :
            s[k] \notin WS /\ \A j \in (k + 1)..Len(s) : s[j] \in WS

\* _include_matcher.match(line).groups():  ^#include\s+(?:"(.*)"|<(.*)?>)\s*$
\* has1/has2 tell whether the group took part in the match (is not None).
include_matcher(line) ==
    LET q == SkipSet(line, Len(STR_include) + 1, WS)
        e == LastNonWS(line)
        none == [ok |-> FALSE, has1 |-> FALSE, g1 |-> <<>>, has2 |-> FALSE, g2 |-> <<>>]
    IN  IF ~StartsWith(line, STR_include) THEN none
        ELSE IF q = Len(STR_include) + 1 \/ q > Len(line) THEN none
        ELSE IF line[q] = "\"" /\ e > q /\ line[e] = "\""
             THEN [ok |-> TRUE, has1 |-> TRUE, g1 |-> SubSeq(line, q + 1, e - 1),
                   has2 |-> FALSE, g2 |-> <<>>]
        ELSE IF line[q] = "<" /\ e > q /\ line[e] = ">"
             THEN [ok |-> TRUE, has1 |-> FALSE, g1 |-> <<>>,
                   has2 |-> TRUE, g2 |-> SubSeq(line, q + 1, e - 1)]
        ELSE none

\* patch_includes(line)
patch_includes(line) ==
    LET m == include_matcher(line)
    IN  IF m.ok /\ m.has2 /\ m.g2 # <<>> /\ ~StartsWith(m.g2, STR_QBDI)
        THEN STR_PATCH \o line
        ELSE line

(***************************************************************************)
(* DefineFolder                                                            *)
(***************************************************************************)

\* _define_matcher.match(line):  ^#define\s+(\S+)\s+(\d+)\s*$
define_matcher(line) ==
    LET q  == SkipSet(line, Len(STR_define) + 1, WS)
        n2 == SkipNonWS(line, q)
        d1 == SkipSet(line, n2, WS)
        d2 == SkipSet(line, d1, Digit)
        e  == SkipSet(line, d2, WS)
        none == [ok |-> FALSE, g1 |-> <<>>, g2 |-> <<>>]
    IN  IF ~StartsWith(line, STR_define) THEN none
        ELSE IF q > Len(STR_define) + 1 /\ n2 > q /\ d1 > n2 /\ d2 > d1
                  /\ e = Len(line) + 1
             THEN [ok |-> TRUE, g1 |-> SubSeq(line, q, n2 - 1),
                   g2 |-> SubSeq(line, d1, d2 - 1)]
        ELSE none

\* patch_defines(line)
patch_defines(line) ==
    LET m == define_matcher(line)
    IN  IF m.ok
        THEN STR_const_int \o m.g1 \o <<" ", "=", " ">> \o m.g2 \o <<";">>
        ELSE line

(***************************************************************************)
(* ProblematicDeclarationFilter                                            *)
(***************************************************************************)

\* patch_problematic(line)
patch_problematic(line) ==
    IF Contains(line, STR_compile_check) THEN <<>>
    ELSE IF StartsWith(line, STR_extern_on) THEN <<>>
    ELSE IF \E vf \in VARADIC_FUNCTIONS : Contains(line, vf) THEN <<>>
    ELSE line

(***************************************************************************)
(* ArithmeticFolder                                                        *)
(***************************************************************************)

NoArith == [ok |-> FALSE, a |-> <<>>, b |-> <<>>, end |-> 0]

\* the pattern  \[(\d+)\*(\d+)\]  tried at index i; end is the index after it
mul_matcher(s, i) ==
    IF ~(i <= Len(s) /\ s[i] = "[") THEN NoArith
    ELSE LET a2 == SkipSet(s, i + 1, Digit)
             b2 == SkipSet(s, a2 + 1, Digit)
         IN  IF /\ a2 > i + 1
                /\ a2 <= Len(s) /\ s[a2] = "*"
                /\ b2 > a2 + 1
                /\ b2 <= Len(s) /\ s[b2] = "]"
             THEN [ok |-> TRUE, a |-> SubSeq(s, i + 1, a2 - 1),
                   b |-> SubSeq(s, a2 + 1, b2 - 1), end |-> b2 + 1]
             ELSE NoArith

\* the pattern  =\s*(\d+)<<(\d+)  tried at index i
shift_matcher(s, i) ==
    IF ~(i <= Len(s) /\ s[i] = "=") THEN NoArith
    ELSE LET a1 == SkipSet(s, i + 1, WS)
             a2 == SkipSet(s, a1, Digit)
             b2 == SkipSet(s, a2 + 2, Digit)
         IN  IF /\ a2 > a1
                /\ IsAt(<<"<", "<">>, s, a2)
                /\ b2 > a2 + 2
             THEN [ok |-> TRUE, a |-> SubSeq(s, a1, a2 - 1),
                   b |-> SubSeq(s, a2 + 2, b2 - 1), end |-> b2]
             ELSE NoArith

\* the index of the leftmost match at or after i, 0 if there is none
NextMul(s, i) ==
    IF \E j \in i..Len(s) : mul_matcher(s, j).ok
    THEN CHOOSE j \in i..Len(s) :
            mul_matcher(s, j).ok /\ \A k \in i..(j - 1) : ~mul_matcher(s, k).ok
    ELSE 0

NextShift(s, i) ==
    IF \E j \in i..Len(s) : shift_matcher(s, j).ok
    THEN CHOOSE j \in i..Len(s) :
            shift_matcher(s, j).ok /\ \A k \in i..(j - 1) : ~shift_matcher(s, k).ok
    ELSE 0

\* re.sub of the product pattern from index i on: leftmost matches, left to
\* right, never rescanning what it has written
RECURSIVE sub_mul(_, _)
sub_mul(s, i) ==
    LET j == NextMul(s, i)
        m == mul_matcher(s, j)
    IN  IF j = 0 THEN SubSeq(s, i, Len(s))
        ELSE SubSeq(s, i, j - 1)
               \o <<"[">> \o FormatInt(ParseInt(m.a) * ParseInt(m.b)) \o <<"]">>
               \o sub_mul(s, m.end)

\* re.sub of the shift pattern from index i on
RECURSIVE sub_shift(_, _)
sub_shift(s, i) ==
    LET j == NextShift(s, i)
        m == shift_matcher(s, j)
    IN  IF j = 0 THEN SubSeq(s, i, Len(s))
        ELSE SubSeq(s, i, j - 1)
               \o <<"=", " ">> \o FormatInt(ShiftLeft(ParseInt(m.a), ParseInt(m.b)))
               \o sub_shift(s, m.end)

\* patch_arithmetic_expressions, on the file's content
patch_arithmetic_expressions(code) == sub_shift(sub_mul(code, 1), 1)

(***************************************************************************)
(* patch_string / patch_file                                               *)
(***************************************************************************)

\* patcher(line) for the patcher function named p; only patch_bitfield
\* touches the counter
ApplyPatcher(p, line, cnt) ==
    CASE p = "patch_bitfield"    -> patch_bitfield(line, cnt)
      [] p = "patch_includes"    -> [line |-> patch_includes(line), cnt |-> cnt]
      [] p = "patch_defines"     -> [line |-> patch_defines(line), cnt |-> cnt]
      [] p = "patch_problematic" -> [line |-> patch_problematic(line), cnt |-> cnt]

\* F(v) with v evaluated once, however often F refers to its argument
Eval(v, F(_)) == CHOOSE y \in {F(x) : x \in {v}} : TRUE

\* [patcher(l) for l in lines], left to right
RECURSIVE MapLines(_, _, _)
MapLines(lines, p, cnt) ==
    IF lines = <<>> THEN [lines |-> <<>>, cnt |-> cnt]
    ELSE LET rest(h) ==
                 LET cons(t) == [lines |-> <<h.line>> \o t.lines, cnt |-> t.cnt]
                 IN  Eval(MapLines(Tail(lines), p, h.cnt), cons)
         IN  Eval(ApplyPatcher(p, lines[1], cnt), rest)

\* patch_string(code, patcher)
patch_string(code, p, cnt) ==
    LET joined(r) == [code |-> JoinLines(r.lines), cnt |-> r.cnt]
        mapped(lines) == Eval(MapLines(lines, p, cnt), joined)
    IN  Eval(SplitLines(code), mapped)

(***************************************************************************)
(* The file system: a function from the paths that exist to what is there. *)
(* A path is the sequence of its components below the build directory      *)
(* (or below the include directory, for the tree that is copied from).     *)
(***************************************************************************)

Dir == [dir |-> TRUE, data |-> <<>>]

File(content) == [dir |-> FALSE, data |-> content]

IsDir(fs, p) == p \in DOMAIN fs /\ fs[p].dir

IsFile(fs, p) == p \in DOMAIN fs /\ ~fs[p].dir

\* p is q or an ancestor of q
IsPrefix(p, q) == Len(p) <= Len(q) /\ SubSeq(q, 1, Len(p)) = p

Parent(p) == SubSeq(p, 1, Len(p) - 1)

Ancestors(p) == {SubSeq(p, 1, k) : k \in 0..(Len(p) - 1)}

\* fs with entry e at path p
Put(fs, p, e) == [q \in DOMAIN fs \cup {p} |-> IF q = p THEN e ELSE fs[q]]

\* os.makedirs(p): raises when p exists or an ancestor is a file; creates the
\* missing ancestors
os_makedirs(fs, p) ==
    IF p \in DOMAIN fs \/ \E a \in Ancestors(p) : IsFile(fs, a)
    THEN [ok |-> FALSE, fs |-> fs]
    ELSE [ok |-> TRUE,
          fs |-> [q \in DOMAIN fs \cup Ancestors(p) \cup {p} |->
                    IF q \in DOMAIN fs THEN fs[q] ELSE Dir]]

\* shutil.rmtree(p, ignore_errors=True)
shutil_rmtree(fs, p) == [q \in {q \in DOMAIN fs : ~IsPrefix(p, q)} |-> fs[q]]

\* shutil.copy(src, dst) of a file named name holding content: into dst when
\* dst is a directory, else onto dst itself
shutil_copy(fs, content, name, dst) ==
    LET target == IF IsDir(fs, dst) THEN Append(dst, name) ELSE dst
    IN  IF target # <<>> /\ IsDir(fs, Parent(target)) /\ ~IsDir(fs, target)
        THEN [ok |-> TRUE, fs |-> Put(fs, target, File(content))]
        ELSE [ok |-> FALSE, fs |-> fs]

\* shutil.copytree(src, dst), src a directory of the tree from
shutil_copytree(fs, from, src, dst) ==
    LET made == os_makedirs(fs, dst)
        below == {q \in DOMAIN from : IsPrefix(src, q) /\ q # src}
        moved(q) == dst \o SubSeq(q, Len(src) + 1, Len(q))
    IN  IF ~made.ok THEN made
        ELSE [ok |-> TRUE,
              fs |-> [t \in DOMAIN made.fs \cup {moved(q) : q \in below} |->
                        IF \E q \in below : moved(q) = t
                        THEN from[CHOOSE q \in below : moved(q) = t]
                        ELSE made.fs[t]]]

\* patch_file(fname, patcher): open(fname, 'r+'), patch the content, write it
\* back; fname is a file of fs
patch_file(fs, fname, p, cnt) ==
    LET written(r) == [files |-> [fs EXCEPT ![fname] = File(r.code)], cnt |-> r.cnt]
        read(code) == Eval(patch_string(code, p, cnt), written)
    IN  Eval(fs[fname].data, read)

\* patch_file_prepend(fname, content)
patch_file_prepend(fs, fname, content) ==
    [fs EXCEPT ![fname] = File(content \o fs[fname].data)]

\* str.endswith
EndsWith(s, p) == IsAt(p, s, Len(s) - Len(p) + 1)

\* the elements of a finite set in some fixed order
RECURSIVE SeqOf(_)
SeqOf(S) ==
    IF S = {} THEN <<>>
    ELSE LET x == CHOOSE x \in S : TRUE IN <<x>> \o SeqOf(S \ {x})

STR_dot_h == <<".", "h">>

\* listdir_rec(path, lambda x: x.endswith('.h')): the generator before its
\* first item is asked for
listdir_rec(path) == [todo |-> <<path>>, files |-> <<>>]

\* next() on that generator over os.walk: the files of a directory are listed
\* when the walk reaches it and yielded before its subdirectories are
\* walked. item holds the file yielded, or nothing once the generator is
\* exhausted, which it then stays.
RECURSIVE gen_next(_, _)
gen_next(g, fs) ==
    IF g.files # <<>>
    THEN LET fname == Head(g.files)
             rest == [g EXCEPT !.files = Tail(g.files)]
         IN  IF EndsWith(fname[Len(fname)], STR_dot_h)
             THEN [item |-> <<fname>>, gen |-> rest]
             ELSE gen_next(rest, fs)
    ELSE IF g.todo # <<>>
    THEN LET d == Head(g.todo)
             kids == IF IsDir(fs, d)
                     THEN {q \in DOMAIN fs : Len(q) = Len(d) + 1 /\ IsPrefix(d, q)}
                     ELSE {}
         IN  gen_next([todo |-> SeqOf({q \in kids : fs[q].dir}) \o Tail(g.todo),
                       files |-> SeqOf({q \in kids : ~fs[q].dir})], fs)
    ELSE [item |-> <<>>, gen |-> g]

(***************************************************************************)
(* The external preprocessor, gcc -E -P -nostdinc path -I<search>          *)
(***************************************************************************)

\* s.split(c)
RECURSIVE SplitOn(_, _)
SplitOn(s, c) ==
    IF \E k \in 1..Len(s) : s[k] = c
    THEN LET k == CHOOSE k \in 1..Len(s) : s[k] = c /\ \A j \in 1..(k - 1) : s[j] # c
         IN  <<SubSeq(s, 1, k - 1)>> \o SplitOn(SubSeq(s, k + 1, Len(s)), c)
    ELSE <<s>>

\* What a successful run writes to stdout for the lines of a file in
\* directory cur: an include is replaced by the expansion of the file it
\* names (a quoted one looked up in cur first, then in search), the other
\* directives and the comment lines are consumed, every other line is
\* passed on. ok is FALSE when an include cannot be resolved.
RECURSIVE cpp_lines(_, _, _, _)
cpp_lines(fs, lines, cur, search) ==
    IF lines = <<>> THEN [ok |-> TRUE, out |-> <<>>]
    ELSE LET l == Head(lines)
             m == include_matcher(l)
             target == SplitOn(IF m.has1 THEN m.g1 ELSE m.g2, "/")
             places == (IF m.has1 THEN <<cur \o target>> ELSE <<>>) \o <<search \o target>>
             found == SelectSeq(places, LAMBDA q : IsFile(fs, q))
             included(h) ==
                 LET after(t) == [ok |-> h.ok /\ t.ok, out |-> h.out \o t.out]
                 IN  Eval(cpp_lines(fs, Tail(lines), cur, search), after)
             passed(t) == [ok |-> t.ok, out |-> <<l>> \o t.out]
         IN  IF m.ok
             THEN IF found = <<>> THEN [ok |-> FALSE, out |-> <<>>]
                  ELSE Eval(cpp_lines(fs, SplitLines(fs[found[1]].data),
                                      Parent(found[1]), search), included)
             ELSE IF StartsWith(l, <<"#">>) \/ StartsWith(l, <<"/", "/">>)
                     \/ \A k \in 1..Len(l) : l[k] \in WS
                  THEN cpp_lines(fs, Tail(lines), cur, search)
                  ELSE Eval(cpp_lines(fs, Tail(lines), cur, search), passed)

\* one text per line of lines, each line terminated
RECURSIVE Terminated(_)
Terminated(lines) ==
    IF lines = <<>> THEN <<>> ELSE lines[1] \o <<NL>> \o Terminated(Tail(lines))

(***************************************************************************)
(* State                                                                   *)
(***************************************************************************)

VARIABLES
    inc,      \* the include directory the build copies from (never written)
    fs,       \* the build directory, shared by the runs on the host
    pc,       \* per run: the statement it is about to execute
    counter,  \* per run: its process's _name_counter
    headers,  \* per run: the generator bound to build_all's local `headers`
    proc,     \* per run: what the preprocessor returned, once it has run
    status,   \* per run: the exit status, once exit() was called
    log,      \* per run: the passes it has completed, in order
    crossed,  \* a run changed the build directory while another was using it
    arg,      \* text handed to the function under test
    call,     \* name of the function applied to arg, "" before the call
    rets,     \* the results of its successive applications
    cnts      \* _name_counter before and after each application

buildVars == <<inc, fs, pc, counter, headers, proc, status, log, crossed>>

unitVars == <<arg, call, rets, cnts>>

vars == <<buildVars, unitVars>>

Runs == {1, 2}

EmptyFS == [q \in {} |-> Dir]

NoProc == [ran |-> FALSE, returncode |-> 0, err |-> <<>>, before |-> <<>>]

\* no build runs: the state of the build variables while one function is
\* exercised on its own
BuildOff ==
    /\ inc = EmptyFS
    /\ fs = EmptyFS
    /\ pc = [r \in Runs |-> "off"]
    /\ counter = [r \in Runs |-> CounterStart]
    /\ headers = [r \in Runs |-> [todo |-> <<>>, files |-> <<>>]]
    /\ proc = [r \in Runs |-> NoProc]
    /\ status = [r \in Runs |-> [exited |-> FALSE, code |-> 0]]
    /\ log = [r \in Runs |-> <<>>]
    /\ crossed = FALSE

(***************************************************************************)
(* Input texts: concatenations of at most k pieces                         *)
(***************************************************************************)

RECURSIVE Pieces(_, _)
Pieces(T, k) ==
    IF k = 0 THEN {<<>>}
    ELSE LET prev == Pieces(T, k - 1)
         IN  prev \cup {t \o s : t \in T, s \in prev}

HasNL(s) == \E k \in 1..Len(s) : s[k] = NL

(***************************************************************************)
(* IncludePatcher applied to one line                                      *)
(***************************************************************************)

\* most pieces an include line is built from
MaxIncludePieces == 5

IncludePieces ==
    { <<" ">>, <<"<">>, <<">">>, <<"\"">>, STR_QBDI, <<"x">> }

IncludeLines ==
    { h \o b : h \in {<<>>, STR_include}, b \in Pieces(IncludePieces, MaxIncludePieces) }

InitInclude ==
    /\ BuildOff
    /\ arg \in IncludeLines
    /\ call = ""
    /\ rets = <<>>
    /\ cnts = <<>>

Call_patch_includes ==
    /\ call = ""
    /\ ~HasNL(arg)
    /\ call' = "patch_includes"
    /\ rets' = <<patch_includes(arg)>>
    /\ UNCHANGED <<arg, cnts, buildVars>>

NextInclude == Call_patch_includes

SpecInclude == InitInclude /\ [][NextInclude]_vars

\* the line is an angle-bracket include: #include, white space, <target>
\* and nothing but white space after it
IsAngleInclude(line) == include_matcher(line).ok /\ include_matcher(line).has2

AngleTarget(line) == include_matcher(line).g2

\* C6 as stated: an angle-bracket include whose target begins with QBDI is
\* returned unchanged, every other angle-bracket include (an empty target
\* included) is returned behind the comment-out marker, and every other line
\* (quoted includes, non-includes) is returned unchanged.
C6_IncludePatcherAsClaimed ==
    call = "patch_includes" =>
        IF IsAngleInclude(arg) /\ ~StartsWith(AngleTarget(arg), STR_QBDI)
        THEN rets[1] = STR_PATCH \o arg
        ELSE rets[1] = arg

(***************************************************************************)
(* DefineFolder applied to one line                                        *)
(***************************************************************************)

\* most pieces the rest of a #define line is built from
MaxDefinePieces == 5

DefinePieces ==
    { <<" ">>, <<"F">>, <<"(", "x", ")">>, <<"1">>, <<"0", "7">>, <<"x">> }

DefineLines ==
    { h \o b : h \in {<<>>, STR_define}, b \in Pieces(DefinePieces, MaxDefinePieces) }

InitDefine ==
    /\ BuildOff
    /\ arg \in DefineLines
    /\ call = ""
    /\ rets = <<>>
    /\ cnts = <<>>

Call_patch_defines ==
    /\ call = ""
    /\ ~HasNL(arg)
    /\ call' = "patch_defines"
    /\ rets' = <<patch_defines(arg)>>
    /\ UNCHANGED <<arg, cnts, buildVars>>

NextDefine == Call_patch_defines

SpecDefine == InitDefine /\ [][NextDefine]_vars

\* the characters of a C identifier that occur in the model's alphabet
IdentStart == {"F", "x", "_"}

IsIdentifier(s) ==
    /\ s # <<>>
    /\ s[1] \in IdentStart
    /\ \A k \in 1..Len(s) : s[k] \in IdentStart \cup Digit

\* The line read as a C macro definition: #define, white space, then the
\* longest run of identifier characters as its name.
MacroNameStart(line) == SkipSet(line, Len(STR_define) + 1, WS)

MacroNameEnd(line) == SkipSet(line, MacroNameStart(line), IdentStart \cup Digit)

MacroName(line) == SubSeq(line, MacroNameStart(line), MacroNameEnd(line) - 1)

IsMacro(line) ==
    /\ StartsWith(line, STR_define)
    /\ MacroNameStart(line) > Len(STR_define) + 1
    /\ IsIdentifier(MacroName(line))

\* the name is directly followed by a parameter list
IsFunctionLike(line) ==
    /\ IsMacro(line)
    /\ MacroNameEnd(line) <= Len(line)
    /\ line[MacroNameEnd(line)] = "("

IsObjectLike(line) ==
    /\ IsMacro(line)
    /\ MacroNameEnd(line) = Len(line) + 1 \/ line[MacroNameEnd(line)] \in WS

\* the replacement text of an object-like macro, outer white space dropped
MacroBody(line) ==
    SubSeq(line, SkipSet(line, MacroNameEnd(line), WS), LastNonWS(line))

IsInteger(s) == s # <<>> /\ \A k \in 1..Len(s) : s[k] \in Digit

\* C7 as stated: #define NAME INTEGER with NAME one identifier and INTEGER
\* one decimal integer becomes  const int NAME = INTEGER;  and every
\* function-like macro (such as  #define F(x) 1 ), multi-token macro and
\* macro whose body is no integer is returned unchanged.
C7_DefineFolderAsClaimed ==
    call = "patch_defines" =>
        /\ IsObjectLike(arg) /\ IsInteger(MacroBody(arg)) =>
              rets[1] = STR_const_int \o MacroName(arg) \o <<" ", "=", " ">>
                          \o MacroBody(arg) \o <<";">>
        /\ IsFunctionLike(arg) => rets[1] = arg
        /\ IsObjectLike(arg) /\ ~IsInteger(MacroBody(arg)) => rets[1] = arg

(***************************************************************************)
(* ProblematicDeclarationFilter applied through patch_string               *)
(***************************************************************************)

\* most pieces a text handed to the filter is built from
MaxProblemPieces == 4

KW_extern == <<"e","x","t","e","r","n">>
KW_int == <<"i","n","t">>
KW_hook == <<"q","b","d","i","p","r","e","l","o","a","d","_","o","n","_">>

ProblemPieces ==
    { <<" ">>, <<NL>>, <<"x">>, KW_extern \o <<" ">>, KW_int \o <<" ">> \o KW_hook,
      STR_compile_check } \cup VARADIC_FUNCTIONS

InitProblematic ==
    /\ BuildOff
    /\ arg \in Pieces(ProblemPieces, MaxProblemPieces)
    /\ call = ""
    /\ rets = <<>>
    /\ cnts = <<>>

Call_patch_problematic ==
    /\ call = ""
    /\ call' = "patch_problematic"
    /\ rets' = <<patch_string(arg, "patch_problematic", CounterStart).code>>
    /\ UNCHANGED <<arg, cnts, buildVars>>

NextProblematic == Call_patch_problematic

SpecProblematic == InitProblematic /\ [][NextProblematic]_vars

\* the line declares  extern int qbdipreload_on_* , however indented and
\* however its tokens are spaced
IsHookExtern(line) ==
    LET a == SkipSet(line, 1, WS)
        b == SkipSet(line, a + Len(KW_extern), WS)
        c == SkipSet(line, b + Len(KW_int), WS)
    IN  /\ IsAt(KW_extern, line, a)
        /\ b > a + Len(KW_extern)
        /\ IsAt(KW_int, line, b)
        /\ c > b + Len(KW_int)
        /\ IsAt(KW_hook, line, c)

IsProblematic(line) ==
    \/ Contains(line, STR_compile_check)
    \/ \E vf \in VARADIC_FUNCTIONS : Contains(line, vf)
    \/ IsHookExtern(line)

IsKeptLine(line) == line # <<>> /\ ~IsProblematic(line)

NonEmpty(line) == line # <<>>

\* C8 as stated: after the pass no line of the output contains the marker
\* __compile_check or a denylisted variadic name, none is an
\* extern int qbdipreload_on_* declaration (whatever its indentation or
\* spacing), and the lines that had none of these are unchanged, in the same
\* relative order.
C8_FilterAsClaimed ==
    call = "patch_problematic" =>
        LET out == SplitLines(rets[1])
        IN  /\ \A i \in 1..Len(out) : ~IsProblematic(out[i])
            /\ SelectSeq(out, NonEmpty) = SelectSeq(SplitLines(arg), IsKeptLine)

(***************************************************************************)
(* BitfieldAnonymizer applied to a file, twice                             *)
(***************************************************************************)

\* most pieces a header file handed to the anonymizer is built from
MaxBitfieldPieces == 4

BitfieldPieces ==
    { <<" ">>, <<NL>>, <<"a">>, <<":", " ", "3", ";">>, <<" ", ":", "0", "3", " ", ",">>,
      <<"/", "*", " ", "a", " ", "*", "/">> }

\* the values the counter may hold when the pass is run again
CounterValues == {CounterStart, 0, 9}

TheFile == "f"

InitBitfield ==
    /\ BuildOff
    /\ arg \in Pieces(BitfieldPieces, MaxBitfieldPieces)
    /\ call = ""
    /\ rets = <<>>
    /\ cnts = <<>>

\* _name_counter = -1; patch_file(path, patch_bitfield)   on a file holding arg
Call_patch_file_bitfield ==
    /\ call = ""
    /\ \E r \in {patch_file([f \in {TheFile} |-> File(arg)], TheFile, "patch_bitfield",
                            CounterStart)} :
           /\ rets' = <<r.files[TheFile].data>>
           /\ cnts' = <<[before |-> CounterStart, after |-> r.cnt]>>
    /\ call' = "patch_bitfield"
    /\ UNCHANGED <<arg, buildVars>>

\* patch_file(path, patch_bitfield) once more, the counter holding any value
Again_patch_file_bitfield ==
    /\ call = "patch_bitfield"
    /\ Len(rets) = 1
    /\ \E c \in CounterValues :
          \E r \in {patch_file([f \in {TheFile} |-> File(rets[1])], TheFile,
                               "patch_bitfield", c)} :
              /\ rets' = Append(rets, r.files[TheFile].data)
              /\ cnts' = Append(cnts, [before |-> c, after |-> r.cnt])
    /\ UNCHANGED <<arg, call, buildVars>>

NextBitfield == Call_patch_file_bitfield \/ Again_patch_file_bitfield

SpecBitfield == InitBitfield /\ [][NextBitfield]_vars

NoAnonymousBitfield(code) ==
    \A i \in 1..Len(SplitLines(code)) : ~bitfield_matcher(SplitLines(code)[i]).ok

\* C9 as stated: after the pass no line of the file matches the
\* anonymous-bitfield pattern, and a second run, from any counter value,
\* leaves the file content unchanged and generates no new name.
C9_IdempotentAsClaimed ==
    call = "patch_bitfield" =>
        /\ NoAnonymousBitfield(rets[1])
        /\ Len(rets) = 2 =>
              /\ rets[2] = rets[1]
              /\ cnts[2].after = cnts[2].before

(***************************************************************************)
(* ArithmeticFolder applied to a text, twice                               *)
(***************************************************************************)

\* most pieces a text handed to the folder is built from
MaxArithPieces == 4

ArithPieces ==
    { <<"=">>, <<"=", " ", "1">>, <<"<", "<">>, <<"<", "<", "2">>, <<"[", "3", "*">>,
      <<"4", "]">>, <<"x">> }

InitArith ==
    /\ BuildOff
    /\ arg \in Pieces(ArithPieces, MaxArithPieces)
    /\ call = ""
    /\ rets = <<>>
    /\ cnts = <<>>

Call_patch_arithmetic_expressions ==
    /\ call = ""
    /\ call' = "patch_arithmetic_expressions"
    /\ rets' = <<patch_arithmetic_expressions(arg)>>
    /\ UNCHANGED <<arg, cnts, buildVars>>

Again_patch_arithmetic_expressions ==
    /\ call = "patch_arithmetic_expressions"
    /\ Len(rets) = 1
    /\ rets' = Append(rets, patch_arithmetic_expressions(rets[1]))
    /\ UNCHANGED <<arg, call, cnts, buildVars>>

NextArith == Call_patch_arithmetic_expressions \/ Again_patch_arithmetic_expressions

SpecArith == InitArith /\ [][NextArith]_vars

\* the text holds an occurrence of  [<int>*<int>]
HasProduct(s) == \E i \in 1..Len(s) : mul_matcher(s, i).ok

\* the text holds an occurrence of  = <int><<<int>
HasShift(s) == \E i \in 1..Len(s) : shift_matcher(s, i).ok

\* C10 as stated: the output holds no occurrence of either shape, so a
\* second application changes nothing (chained shifts included), and a text
\* in neither shape is unchanged.
C10_ExhaustiveAsClaimed ==
    call = "patch_arithmetic_expressions" =>
        /\ ~HasProduct(rets[1])
        /\ ~HasShift(rets[1])
        /\ Len(rets) = 2 => rets[2] = rets[1]
        /\ ~HasProduct(arg) /\ ~HasShift(arg) => rets[1] = arg

(***************************************************************************)
(* The build: build_all() and Builder                                      *)
(***************************************************************************)

NAME_include == <<"i","n","c","l","u","d","e">>
NAME_patched == <<"p","a","t","c","h","e","d">>
NAME_preloader == <<"p","r","e","l","o","a","d","e","r">>
NAME_QBDI_h == <<"Q","B","D","I",".","h">>
NAME_QBDIPreload_h == <<"Q","B","D","I","P","r","e","l","o","a","d",".","h">>
NAME_main_h == <<"m","a","i","n",".","h">>

\* build_dir, and Builder.__init__'s directories below it
out_dir == <<>>
cffi_inc_dir == <<NAME_include>>
cffi_patched_dir == <<NAME_patched>>
cffi_pre_dir == <<NAME_preloader>>
main_h == <<NAME_preloader, NAME_main_h>>

\* the statements of build_all() and Builder.build_all up to the call of
\* patch_main, in program order
build_all_steps ==
    << "rmtree", "mk_build",
       "mk_inc", "mk_patched", "mk_pre",
       "cp_tree_inc", "cp_qbdi_inc", "cp_tree_patched", "cp_qbdi_patched",
       "cp_preload_inc", "cp_main",
       "list_inc", "fix_inc", "list_patched", "patch_hdrs", "fix_patched" >>

\* patch_main with the slip of preprocessing before the defines are folded
patch_main_steps_preprocess_early ==
    << "pm_prepend", "pm_includes", "pm_preprocess", "pm_defines",
       "pm_reset", "pm_bitfield", "pm_problematic", "pm_arith" >>

\* the statements of Builder.patch_main, in program order
patch_main_steps ==
    << "pm_prepend", "pm_includes", "pm_defines", "pm_preprocess",
       "pm_reset", "pm_bitfield", "pm_problematic", "pm_arith" >>

Program == build_all_steps \o patch_main_steps \o <<"build_ffi", "done">>

\* the statement after statement l
After(l) == Program[(CHOOSE i \in 1..Len(Program) : Program[i] = l) + 1]

\* run o has created its build roots and has not ended
Using(o) == pc[o] \notin {"off", "rmtree", "mk_build", "done", "crashed", "exited"}

Event(op, path, cnt, aux) == [op |-> op, path |-> path, cnt |-> cnt, aux |-> aux]

\* Run r ends the statement at pc[r]: res says whether it raised and what the
\* build directory holds after it; ev are the passes it completed.
Finish(r, result, ev) ==
    \E res \in {result} :
        /\ fs' = res.fs
        /\ pc' = [pc EXCEPT ![r] = IF res.ok THEN After(pc[r]) ELSE "crashed"]
        /\ log' = [log EXCEPT ![r] = IF res.ok THEN @ \o ev ELSE @]
        /\ crossed' = (crossed \/ (res.fs # fs /\ \E o \in Runs \ {r} : Using(o)))

\* shutil.rmtree(build_dir, ignore_errors=True)
rmtree(r) ==
    /\ pc[r] = "rmtree"
    /\ Finish(r, [ok |-> TRUE, fs |-> shutil_rmtree(fs, out_dir)], <<>>)
    /\ UNCHANGED <<inc, counter, headers, proc, status, unitVars>>

\* the directory an os.makedirs statement creates
MakedirsArg(l) ==
    CASE l = "mk_build"   -> out_dir
      [] l = "mk_inc"     -> cffi_inc_dir
      [] l = "mk_patched" -> cffi_patched_dir
      [] l = "mk_pre"     -> cffi_pre_dir

\* os.makedirs(...)
makedirs(r) ==
    /\ pc[r] \in {"mk_build", "mk_inc", "mk_patched", "mk_pre"}
    /\ Finish(r, os_makedirs(fs, MakedirsArg(pc[r])), <<>>)
    /\ UNCHANGED <<inc, counter, headers, proc, status, unitVars>>

\* shutil.copytree(include_dir/QBDI, <root>/QBDI)
copytree(r) ==
    /\ pc[r] \in {"cp_tree_inc", "cp_tree_patched"}
    /\ LET root == IF pc[r] = "cp_tree_inc" THEN cffi_inc_dir ELSE cffi_patched_dir
       IN  Finish(r, shutil_copytree(fs, inc, <<STR_QBDI>>, Append(root, STR_QBDI)), <<>>)
    /\ UNCHANGED <<inc, counter, headers, proc, status, unitVars>>

\* the file a shutil.copy statement copies, and where to
CopyArgs(l) ==
    CASE l = "cp_qbdi_inc"     -> [name |-> NAME_QBDI_h, dst |-> cffi_inc_dir]
      [] l = "cp_qbdi_patched" -> [name |-> NAME_QBDI_h, dst |-> cffi_patched_dir]
      [] l = "cp_preload_inc"  -> [name |-> NAME_QBDIPreload_h, dst |-> cffi_inc_dir]
      [] l = "cp_main"         -> [name |-> NAME_QBDIPreload_h, dst |-> main_h]

\* shutil.copy(include_dir/<name>, <dst>)
copy(r) ==
    /\ pc[r] \in {"cp_qbdi_inc", "cp_qbdi_patched", "cp_preload_inc", "cp_main"}
    /\ LET a == CopyArgs(pc[r])
       IN  Finish(r, shutil_copy(fs, inc[<<a.name>>].data, a.name, a.dst), <<>>)
    /\ UNCHANGED <<inc, counter, headers, proc, status, unitVars>>

\* headers = listdir_rec(<root>, lambda x: x.endswith('.h'))
list_headers(r) ==
    /\ pc[r] \in {"list_inc", "list_patched"}
    /\ headers' = [headers EXCEPT ![r] =
                     listdir_rec(IF pc[r] = "list_inc" THEN cffi_inc_dir
                                 ELSE cffi_patched_dir)]
    /\ Finish(r, [ok |-> TRUE, fs |-> fs], <<>>)
    /\ UNCHANGED <<inc, counter, proc, status, unitVars>>

\* One turn of a loop  for path in paths  of fix_headers or patch_headers,
\* paths being the generator in `headers`: the loop ends when the generator
\* yields nothing, else the body runs on what it yields. What the body
\* does to the file system and the counter is `body`.
LoopTurn(r, ev, body(_), cnt0) ==
    \E n \in {gen_next(headers[r], fs)} :
        /\ headers' = [headers EXCEPT ![r] = n.gen]
        /\ IF n.item = <<>>
           THEN /\ Finish(r, [ok |-> TRUE, fs |-> fs], <<>>)
                /\ UNCHANGED counter
           ELSE IF IsFile(fs, n.item[1])
           THEN \E done \in {body(n.item[1])} :
                    /\ fs' = done.files
                    /\ counter' = [counter EXCEPT ![r] = done.cnt]
                    /\ log' = [log EXCEPT ![r] =
                                 Append(@, Event(ev, n.item[1], cnt0, <<>>))]
                    /\ crossed' = (crossed \/ (done.files # fs
                                               /\ \E o \in Runs \ {r} : Using(o)))
                    /\ UNCHANGED pc
           ELSE /\ Finish(r, [ok |-> FALSE, fs |-> fs], <<>>)
                /\ counter' = [counter EXCEPT ![r] = cnt0]

\* fix_headers(paths): for each path, _name_counter = -1 and
\* patch_file(path, patch_bitfield)
fix_headers(r) ==
    /\ pc[r] \in {"fix_inc", "fix_patched"}
    /\ LET body(path) == patch_file(fs, path, "patch_bitfield", CounterStart)
       IN  LoopTurn(r, "patch_bitfield", body, CounterStart)
    /\ UNCHANGED <<inc, proc, status, unitVars>>

\* patch_headers(paths): for each path, patch_file(path, patch_includes)
patch_headers(r) ==
    /\ pc[r] = "patch_hdrs"
    /\ LET body(path) == patch_file(fs, path, "patch_includes", counter[r])
       IN  LoopTurn(r, "patch_includes", body, counter[r])
    /\ UNCHANGED <<inc, proc, status, unitVars>>

\* patch_file_prepend(path, '#define __attribute__(x)\n')
pm_prepend(r) ==
    /\ pc[r] = "pm_prepend"
    /\ Finish(r, IF IsFile(fs, main_h)
                 THEN [ok |-> TRUE, fs |-> patch_file_prepend(fs, main_h, STR_attribute_shim)]
                 ELSE [ok |-> FALSE, fs |-> fs],
              <<Event("prepend", main_h, counter[r], <<>>)>>)
    /\ UNCHANGED <<inc, counter, headers, proc, status, unitVars>>

\* the patcher a patch_file statement of patch_main passes
PatcherOf(l) ==
    CASE l = "pm_includes"    -> "patch_includes"
      [] l = "pm_defines"     -> "patch_defines"
      [] l = "pm_bitfield"    -> "patch_bitfield"
      [] l = "pm_problematic" -> "patch_problematic"

\* patch_file(path, <patcher>) in patch_main
pm_patch_file(r) ==
    /\ pc[r] \in {"pm_includes", "pm_defines", "pm_bitfield", "pm_problematic"}
    /\ \E res \in {IF IsFile(fs, main_h)
                    THEN patch_file(fs, main_h, PatcherOf(pc[r]), counter[r])
                    ELSE [files |-> fs, cnt |-> counter[r]]} :
           /\ Finish(r, [ok |-> IsFile(fs, main_h), fs |-> res.files],
                     <<Event(PatcherOf(pc[r]), main_h, counter[r], <<>>)>>)
           /\ counter' = [counter EXCEPT ![r] = res.cnt]
    /\ UNCHANGED <<inc, headers, proc, status, unitVars>>

\* the exit statuses and the stderr texts the preprocessor may end with
ReturnCodes == {0, 1}
Diagnostics == {<<>>, <<"w">>}

\* preprocess_header(path) from p.communicate() on: code, err and returncode
\* are what the process gave
preprocess_header(files, path, code, err, returncode) ==
    IF err # <<>> /\ returncode # 0
    THEN [exit |-> TRUE, ok |-> TRUE, fs |-> files]
    ELSE IF IsDir(files, Parent(path)) /\ ~IsDir(files, path)
    THEN [exit |-> FALSE, ok |-> TRUE, fs |-> Put(files, path, File(code))]
    ELSE [exit |-> FALSE, ok |-> FALSE, fs |-> files]

\* self.preprocess_header(path): the preprocessor runs to its end, succeeding
\* or failing, before the statement returns. A run that cannot read its
\* input or resolve an include fails with a diagnostic; a failed run has
\* written nothing to stdout.
pm_preprocess(r) ==
    /\ pc[r] = "pm_preprocess"
    /\ \E e \in {IF IsFile(fs, main_h)
                  THEN cpp_lines(fs, SplitLines(fs[main_h].data), Parent(main_h),
                                 cffi_patched_dir)
                  ELSE [ok |-> FALSE, out |-> <<>>]} :
           \E rc \in ReturnCodes, err \in Diagnostics :
              /\ ~e.ok => rc # 0 /\ err # <<>>
              /\ \E res \in {preprocess_header(fs, main_h,
                                                IF rc = 0 THEN Terminated(e.out) ELSE <<>>,
                                                err, rc)} :
                     /\ proc' = [proc EXCEPT ![r] =
                                   [ran |-> TRUE, returncode |-> rc, err |-> err,
                                    before |-> IF IsFile(fs, main_h)
                                               THEN fs[main_h].data ELSE <<>>]]
                     /\ IF res.exit
                        THEN /\ pc' = [pc EXCEPT ![r] = "exited"]
                             /\ status' = [status EXCEPT ![r] =
                                             [exited |-> TRUE, code |-> rc]]
                             /\ UNCHANGED <<fs, log, crossed>>
                        ELSE /\ Finish(r, res,
                                       <<Event("preprocess", main_h, counter[r],
                                               cffi_patched_dir)>>)
                             /\ UNCHANGED status
    /\ UNCHANGED <<inc, counter, headers, unitVars>>

\* _name_counter = -1 in patch_main
pm_reset(r) ==
    /\ pc[r] = "pm_reset"
    /\ counter' = [counter EXCEPT ![r] = CounterStart]
    /\ Finish(r, [ok |-> TRUE, fs |-> fs], <<Event("reset", main_h, counter[r], <<>>)>>)
    /\ UNCHANGED <<inc, headers, proc, status, unitVars>>

\* patch_arithmetic_expressions(path)
pm_arith(r) ==
    /\ pc[r] = "pm_arith"
    /\ Finish(r, IF IsFile(fs, main_h)
                 THEN [ok |-> TRUE,
                       fs |-> Put(fs, main_h,
                                  File(patch_arithmetic_expressions(fs[main_h].data)))]
                 ELSE [ok |-> FALSE, fs |-> fs],
              <<Event("patch_arithmetic", main_h, counter[r], <<>>)>>)
    /\ UNCHANGED <<inc, counter, headers, proc, status, unitVars>>

\* self.build_ffi(main_h): the binding compiler reads the aggregate
build_ffi(r) ==
    /\ pc[r] = "build_ffi"
    /\ Finish(r, [ok |-> IsFile(fs, main_h), fs |-> fs],
              <<Event("build_ffi", main_h, counter[r], cffi_inc_dir)>>)
    /\ UNCHANGED <<inc, counter, headers, proc, status, unitVars>>

Step(r) ==
    \/ rmtree(r) \/ makedirs(r) \/ copytree(r) \/ copy(r)
    \/ list_headers(r) \/ fix_headers(r) \/ patch_headers(r)
    \/ pm_prepend(r) \/ pm_patch_file(r) \/ pm_preprocess(r) \/ pm_reset(r)
    \/ pm_arith(r) \/ build_ffi(r)

Next == \E r \in Runs : Step(r)

(***************************************************************************)
(* The include trees the build is run on                                   *)
(***************************************************************************)

\* most headers in the QBDI/ directory, most anonymous bit-fields per header
MaxSubHeaders == 2
MaxBitfields == 2

LINE_bitfield == <<" ",":"," ","3",";">>
LINE_member == <<"i","n","t"," ","a",";">>
LINE_stdio == <<"#","i","n","c","l","u","d","e"," ","<","s","t","d","i","o",".","h",">">>
LINE_qbdi == <<"#","i","n","c","l","u","d","e"," ","<","Q","B","D","I",".","h",">">>
LINE_define == <<"#","d","e","f","i","n","e"," ","A"," ","1">>
LINE_variadic == <<"x"," ","q","b","d","i","_","c","a","l","l","(",".",".",".",")",";">>
LINE_array == <<"c","h","a","r"," ","b","[","3","*","4","]",";">>

Repeat(x, k) == [i \in 1..k |-> x]

\* the i-th header of the QBDI/ directory, and the line including it
SubHeaderName(i) == <<"H">> \o FormatInt(i) \o STR_dot_h

SubInclude(i) ==
    STR_include \o <<" ", "\"">> \o STR_QBDI \o <<"/">> \o SubHeaderName(i) \o <<"\"">>

\* An include directory: QBDI/ holds n headers of k anonymous bit-fields
\* each (and, with notes, a file that is no header), QBDI.h includes them
\* and holds kq bit-fields, QBDIPreload.h includes QBDI.h (when withQ) and
\* holds km bit-fields among lines for each of the other passes.
IncludeTree(n, k, kq, km, withQ, notes) ==
    LET sub == [i \in 1..n |-> <<STR_QBDI, SubHeaderName(i)>>]
        extra == IF notes THEN {<<STR_QBDI, <<"N">>>>} ELSE {}
        qbdi == [i \in 1..n |-> SubInclude(i)] \o <<LINE_stdio>> \o Repeat(LINE_bitfield, kq)
        pre == <<LINE_stdio>> \o (IF withQ THEN <<LINE_qbdi>> ELSE <<>>)
                 \o <<LINE_define, LINE_member>> \o Repeat(LINE_bitfield, km)
                 \o <<LINE_variadic, LINE_array>>
    IN  [q \in {<<STR_QBDI>>, <<NAME_QBDI_h>>, <<NAME_QBDIPreload_h>>}
               \cup {sub[i] : i \in 1..n} \cup extra |->
            IF q = <<STR_QBDI>> THEN Dir
            ELSE IF q = <<NAME_QBDI_h>> THEN File(Terminated(qbdi))
            ELSE IF q = <<NAME_QBDIPreload_h>> THEN File(Terminated(pre))
            ELSE IF q \in extra THEN File(Terminated(<<LINE_bitfield>>))
            ELSE File(Terminated(<<LINE_member>> \o Repeat(LINE_bitfield, k)))]

\* what an earlier build may have left in the build directory
StaleFS == Put(Put(EmptyFS, out_dir, Dir), cffi_inc_dir, Dir)

UnitOff ==
    /\ arg = <<>>
    /\ call = "off"
    /\ rets = <<>>
    /\ cnts = <<>>

InitRuns(started) ==
    /\ pc = [r \in Runs |-> IF r \in started THEN "rmtree" ELSE "off"]
    /\ counter = [r \in Runs |-> CounterStart]
    /\ headers = [r \in Runs |-> [todo |-> <<>>, files |-> <<>>]]
    /\ proc = [r \in Runs |-> NoProc]
    /\ status = [r \in Runs |-> [exited |-> FALSE, code |-> 0]]
    /\ log = [r \in Runs |-> <<>>]
    /\ crossed = FALSE
    /\ UnitOff

\* one build on the host
Init ==
    /\ \E n \in 0..MaxSubHeaders, k \in 0..MaxBitfields, kq \in 0..MaxBitfields,
          km \in 0..MaxBitfields, withQ \in BOOLEAN, notes \in BOOLEAN :
          inc = IncludeTree(n, k, kq, km, withQ, notes)
    /\ fs \in {EmptyFS, StaleFS}
    /\ InitRuns({1})

Spec == Init /\ [][Next]_vars

\* two builds on the host at once
InitConc ==
    /\ inc = IncludeTree(1, 1, 0, 0, TRUE, FALSE)
    /\ fs = EmptyFS
    /\ InitRuns(Runs)

SpecConc == InitConc /\ [][Next]_vars

(***************************************************************************)
(* Properties of the build                                                 *)
(***************************************************************************)

\* the passes run r completed on the aggregate entry point, in order
AggregateLog(r) == SelectSeq(log[r], LAMBDA e : e.path = main_h)

\* the order the aggregate's passes are documented in, binding compiler last
AggregateOrder ==
    << "prepend", "patch_includes", "patch_defines", "preprocess", "reset",
       "patch_bitfield", "patch_problematic", "patch_arithmetic", "build_ffi" >>

\* the header files below the staged root
StagedHeaders ==
    {q \in DOMAIN fs : /\ IsPrefix(cffi_patched_dir, q)
                       /\ IsFile(fs, q)
                       /\ EndsWith(q[Len(q)], STR_dot_h)}

\* C1: when the preprocessor exits with a non-zero status, whatever it wrote
\* to stderr, the build exits with that status, the aggregate file keeps
\* the content it had before the preprocessor ran, and no later pass runs.
C1_AbortsOnNonZeroExit ==
    \A r \in Runs :
        proc[r].ran /\ proc[r].returncode # 0 =>
            /\ pc[r] = "exited"
            /\ status[r] = [exited |-> TRUE, code |-> proc[r].returncode]
            /\ IsFile(fs, main_h) /\ fs[main_h].data = proc[r].before
            /\ Len(AggregateLog(r)) = 3

\* C2: when patch_main starts, every header below the staged root has been
\* through IncludePatcher and, after that, through BitfieldAnonymizer with
\* the counter reset, so none holds an anonymous bit-field.
C2_StagedHeadersProcessed ==
    \A r \in Runs :
        pc[r] = "pm_prepend" =>
            \A q \in StagedHeaders :
                /\ \E i \in 1..Len(log[r]), j \in 1..Len(log[r]) :
                      /\ i < j
                      /\ log[r][i].op = "patch_includes" /\ log[r][i].path = q
                      /\ log[r][j] = Event("patch_bitfield", q, CounterStart, <<>>)
                /\ NoAnonymousBitfield(fs[q].data)

\* C3: of two builds running at once, neither deletes, recreates or writes
\* anything in the build directory while the other is using it.
C3_ExclusiveBuildRoots == ~crossed

\* C4: the passes over the aggregate happen in the documented order, each at
\* most once and, in a build that ran to its end, exactly once; the
\* preprocessor searches the staged root, the binding compiler comes last
\* and reads the clean root, and every pass over the clean and staged roots
\* precedes them, their loops having ended.
C4_AggregateStepsInOrder ==
    \A r \in Runs :
        \A a \in {AggregateLog(r)} :
            /\ Len(a) <= Len(AggregateOrder)
            /\ \A i \in 1..Len(a) :
                  /\ a[i].op = AggregateOrder[i]
                  /\ a[i].op = "preprocess" => a[i].aux = cffi_patched_dir
                  /\ a[i].op = "build_ffi" => a[i].aux = cffi_inc_dir
            /\ pc[r] = "done" <=> Len(a) = Len(AggregateOrder)
            /\ \A i \in 1..Len(log[r]), j \in 1..Len(log[r]) :
                  log[r][i].path # main_h /\ log[r][j].path = main_h => i < j
            /\ a # <<>> => \A k \in 1..Len(build_all_steps) : pc[r] # build_all_steps[k]

\* a build ran to its end after passes over the clean and the staged root
C4_Witness ==
    /\ pc[1] = "done"
    /\ Len(AggregateLog(1)) = Len(AggregateOrder)
    /\ \E i \in 1..Len(log[1]) :
          log[1][i].op = "patch_bitfield" /\ IsPrefix(cffi_inc_dir, log[1][i].path)
    /\ \E i \in 1..Len(log[1]) :
          log[1][i].op = "patch_includes" /\ IsPrefix(cffi_patched_dir, log[1][i].path)

\* end of the placeholder  __pQDBI_unused__N__  starting at index i of s, 0
\* if none starts there
PlaceholderEnd(s, i) ==
    IF ~IsAt(STR_unused, s, i) THEN 0
    ELSE LET d == SkipSet(s, i + Len(STR_unused), Digit)
         IN  IF d > i + Len(STR_unused) /\ IsAt(<<"_", "_">>, s, d) THEN d + 1 ELSE 0

\* where the placeholders of s start
PlaceholderStarts(s) == {i \in 1..Len(s) : PlaceholderEnd(s, i) # 0}

Placeholder(s, i) == SubSeq(s, i, PlaceholderEnd(s, i))

\* number of lines of code that are anonymous bit-fields
AnonymousBitfields(code) ==
    Cardinality({i \in 1..Len(SplitLines(code)) : bitfield_matcher(SplitLines(code)[i]).ok})

\* the aggregate as patch_main leaves it
AggregateDone(r) ==
    pc[r] \in {"pm_problematic", "pm_arith", "build_ffi", "done"} /\ IsFile(fs, main_h)

\* C5: once BitfieldAnonymizer has passed over the aggregate, no two
\* placeholder identifiers in it are equal, and no anonymous bit-field is
\* left, those inlined from the staged headers included.
C5_PlaceholdersDistinct ==
    \A r \in Runs :
        AggregateDone(r) =>
            \A code \in {fs[main_h].data} :
                /\ \A P \in {PlaceholderStarts(code)} :
                      \A i \in P, j \in P :
                          i # j => Placeholder(code, i) # Placeholder(code, j)
                /\ NoAnonymousBitfield(code)

\* the finished aggregate holds several placeholders, more than the entry
\* point had anonymous bit-fields of its own
C5_Witness ==
    /\ pc[1] = "done"
    /\ IsFile(fs, main_h)
    /\ AnonymousBitfields(inc[<<NAME_QBDIPreload_h>>].data) >= 1
    /\ Cardinality(PlaceholderStarts(fs[main_h].data)) >= 3
    /\ Cardinality(PlaceholderStarts(fs[main_h].data))
         > AnonymousBitfields(inc[<<NAME_QBDIPreload_h>>].data)

====
